---- MODULE Spec2Model ----
(***************************************************************************)
(* Model of ptd_header_parser.py: the trailer locator (ptd_reader), the    *)
(* value normalizer (assign_type, format_string), the header flattener     *)
(* (get_seq_data, parse_header) and the module-level run that writes       *)
(* .metadata.json.                                                         *)
(*                                                                         *)
(* Representation.  A byte is a number 0..255 and a file a sequence of     *)
(* bytes.  A character is a one-character token; a Python str is a record  *)
(* [k |-> "str", pad |-> n, s |-> chars] standing for n characters "0"     *)
(* followed by the characters of s (the run of zeros lets a string reach   *)
(* the 10240 character threshold of parse_header without 10240 elements).  *)
(* Every other Python value is a record tagged by k, see "Decoded values". *)
(* struct's native 'i' is modelled as the little-endian 4-byte signed      *)
(* integer of the x86-64 hosts the gear image runs on.  int() is modelled  *)
(* without the digit limit of later interpreters.                          *)
(***************************************************************************)
EXTENDS Integers, Sequences, FiniteSets, TLC

VARIABLES
    pc,         \* position of the run in the script / in ptd_reader
    ptd_file,   \* config['inputs']['ptd_file']['location']['path'], as characters
    file,       \* the bytes of the container file on disk
    fp,         \* the file handle of ptd_reader: [open, pos]
    reads,      \* every fp.read so far: <<[at |-> position, n |-> bytes returned]>>
    offset,     \* the unpacked length field IntOf(n), NoOffset before it is read
    dcm_buf,    \* the block handed to the decoder Buf(b), NoBuf before it is read
    ptd,        \* the decoded data set
    tags,       \* parse_header: the tags of ptd.dir() not yet visited
    formatted,  \* parse_header: the local of the tag visited last
    header,     \* parse_header: the mapping built so far
    out,        \* the output file: NoFile, or the document written
    stages,     \* the stages completed so far, in order
    status,     \* "running", "ok", or how the process ended
    s,          \* assign_type: the argument of a direct call
    ret         \* assign_type: the value returned by that call

vars == <<pc, ptd_file, file, fp, reads, offset, dcm_buf, ptd, tags, formatted,
          header, out, stages, status, s, ret>>

(***************************************************************************)
(* Bounds of the model.                                                    *)
(***************************************************************************)
MaxHeaderLen == 2   \* longest embedded header block, in bytes
MaxNodes == 3       \* most tags in one data set, nested groups included
MaxDepth == 2       \* deepest nesting of sequences in a data set
MaxItems == 1       \* most groups in one sequence
MaxListLen == 2     \* longest multi-valued input of a direct assign_type call
MaxStrLen == 2      \* longest element of such an input, in characters

(***************************************************************************)
(* Sequence helpers.                                                       *)
(***************************************************************************)
Range(q) == {q[i] : i \in 1..Len(q)}

SeqsUpTo(S, n) == UNION {[1..m -> S] : m \in 0..n}

EmptyMap == [x \in {} |-> x]

(***************************************************************************)
(* The container trailer: magic string and length field.                   *)
(***************************************************************************)
\* b'LARGE_PET_LM_RAWDATA'
MAGIC_STR == <<76, 65, 82, 71, 69, 95, 80, 69, 84, 95,
               76, 77, 95, 82, 65, 87, 68, 65, 84, 65>>

MAGIC_STR_LEN == Len(MAGIC_STR)

\* struct.calcsize('i')
CalcSizeI == 4

\* struct.pack('i', v): the four bytes of v in two's complement, least
\* significant first
Pack(v) ==
    <<v % 256, (v \div 256) % 256, (v \div 65536) % 256, (v \div 16777216) % 256>>

\* struct.unpack('i', b)[0]: signed, two's complement
UnpackI(b) ==
    (IF b[4] >= 128 THEN b[4] - 256 ELSE b[4]) * 16777216
    + b[3] * 65536 + b[2] * 256 + b[1]

\* fp.seek(delta, 2): the target position, or -1 when it lies before the
\* start of the file (OSError: Invalid argument)
SeekEnd(size, delta) == IF size + delta < 0 THEN -1 ELSE size + delta

\* fp.read(n) at position pos: the bytes returned.  n = -1 reads to the end
\* of the file; the caller rules out n < -1 (ValueError).
ReadBytes(f, pos, n) ==
    LET last == IF n < 0 \/ pos + n > Len(f) THEN Len(f) ELSE pos + n
    IN  IF pos >= Len(f) THEN <<>> ELSE SubSeq(f, pos + 1, last)

\* the seek target of line 39 with the length field left out
HeaderSeekDelta_without_length_field(off) == -off - MAGIC_STR_LEN

\* the seek target of line 39, relative to the end of the file
HeaderSeekDelta(off) == -off - MAGIC_STR_LEN - CalcSizeI

NoOffset == [k |-> "unset"]

NoBuf == [k |-> "unset"]

\* io.BytesIO(b)
Buf(b) == [k |-> "bytes", b |-> b]

NoFile == [k |-> "absent"]

NoDataSet == [k |-> "unset"]

NoValue == [k |-> "unset"]

(***************************************************************************)
(* Input files and paths of the model.                                     *)
(***************************************************************************)
ByteAlphabet == {0, 68}

\* MAGIC_STR with its last byte changed
NotMagic == [MAGIC_STR EXCEPT ![MAGIC_STR_LEN] = 66]

Headers == SeqsUpTo(ByteAlphabet, MaxHeaderLen)

\* values of the length field: the ones around the fitting ones, and two
\* whose sign is decided by the most significant byte
OffsetValues == (-3 .. MaxHeaderLen + 2) \cup {127 * 16777216, -127 * 16777216}

\* opaque list-mode payload in front of the header block
Payloads == {<<>>, <<7>>}

Files ==
    {p \o h \o Pack(o) \o t :
        p \in Payloads, h \in Headers, o \in OffsetValues, t \in {MAGIC_STR, NotMagic}}
    \cup {SubSeq(MAGIC_STR, i, MAGIC_STR_LEN) : i \in 1..(MAGIC_STR_LEN + 1)}
    \cup {b \o MAGIC_STR : b \in SeqsUpTo(ByteAlphabet, CalcSizeI - 1)}

Paths == {<<"a", ".", "p", "t", "d">>, <<".", "p", "t", "d">>,
          <<"a", ".", "d", "c", "m">>, <<"p", "t", "d">>, <<>>}

\* ptd_file.endswith(suffix)
EndsWith(path, suffix) ==
    /\ Len(path) >= Len(suffix)
    /\ SubSeq(path, Len(path) - Len(suffix) + 1, Len(path)) = suffix

PtdSuffix == <<".", "p", "t", "d">>

(***************************************************************************)
(* Characters and strings.                                                 *)
(***************************************************************************)
Digits == {"0", "1", "2", "4", "5", "7"}

\* "U+00E9" is a non-ASCII character, "U+0007" an ASCII control character
\* that is not in string.printable
Chars == Digits \cup {".", "a", "b", "c", "x", "?", "^", "U+00E9", "U+0007"}

DigitVal(c) ==
    CASE c = "0" -> 0 [] c = "1" -> 1 [] c = "2" -> 2
      [] c = "4" -> 4 [] c = "5" -> 5 [] c = "7" -> 7

\* [^\x00-\x7f]
IsNonAscii(c) == c = "U+00E9"

\* x in string.printable
IsPrintable(c) == c \notin {"U+00E9", "U+0007"}

Str(n, q) == [k |-> "str", pad |-> n, s |-> q]

\* len(x) of a str
StrLen(st) == st.pad + Len(st.s)

None == [k |-> "none"]

IntOf(i) == [k |-> "int", i |-> i]

\* the float num / 10^exp, num not a multiple of 10 unless exp = 0
FloatOf(num, exp) == [k |-> "float", num |-> num, exp |-> exp]

ListOf(q) == [k |-> "list", xs |-> q]

MapOf(m) == [k |-> "map", m |-> m]

Raise == [k |-> "raise"]

RECURSIVE DigitsValue(_)
DigitsValue(q) ==
    IF q = <<>> THEN 0
    ELSE 10 * DigitsValue(SubSeq(q, 1, Len(q) - 1)) + DigitVal(q[Len(q)])

RECURSIVE Reduce(_, _)
\* num / 10^exp in lowest terms of the power of ten
Reduce(num, exp) ==
    IF exp > 0 /\ num % 10 = 0 THEN Reduce(num \div 10, exp - 1) ELSE FloatOf(num, exp)

\* int(x) of a str does not raise ValueError
ParsesInt(st) == StrLen(st) > 0 /\ \A i \in 1..Len(st.s) : st.s[i] \in Digits

IntValue(st) == IntOf(DigitsValue(st.s))

\* float(x) of a str does not raise ValueError
ParsesFloat(st) ==
    /\ \A i \in 1..Len(st.s) : st.s[i] \in Digits \cup {"."}
    /\ Cardinality({i \in 1..Len(st.s) : st.s[i] = "."}) <= 1
    /\ st.pad + Cardinality({i \in 1..Len(st.s) : st.s[i] \in Digits}) > 0

FloatValue(st) ==
    LET dots == {i \in 1..Len(st.s) : st.s[i] = "."}
        dot  == IF dots = {} THEN Len(st.s) + 1 ELSE CHOOSE i \in dots : TRUE
        whole == SubSeq(st.s, 1, dot - 1)
        frac  == SubSeq(st.s, dot + 1, Len(st.s))
    IN  Reduce(DigitsValue(whole \o frac), Len(frac))

(***************************************************************************)
(* Decoded values, as pydicom hands them out:                              *)
(*   [k |-> "str", pad, s]   a plain str                                   *)
(*   [k |-> "num", s]        an IS / DS number, s its str()                *)
(*   [k |-> "pn", s]         a PersonName, s its str()                     *)
(*   [k |-> "uid", s]        a UID, s its str()                            *)
(*   [k |-> "mv", xs]        a list / MultiValue of str                    *)
(*   [k |-> "sq", items]     a Sequence of data sets                       *)
(*   [k |-> "bad"]           an element whose access raises                *)
(* A data set is a function from its tags to such values.                  *)
(***************************************************************************)
Num(q) == [k |-> "num", s |-> q]

PN(q) == [k |-> "pn", s |-> q]

Uid(q) == [k |-> "uid", s |-> q]

MV(q) == [k |-> "mv", xs |-> q]

SQ(q) == [k |-> "sq", items |-> q]

Bad == [k |-> "bad"]

\* str(s) of a scalar
StrOf(v) == IF v.k = "str" THEN v ELSE Str(0, v.s)

\* bool(x) of a normalized value
Truthy(v) ==
    CASE v.k = "none"  -> FALSE
      [] v.k = "int"   -> v.i # 0
      [] v.k = "float" -> v.num # 0
      [] v.k = "str"   -> StrLen(v) > 0
      [] v.k = "list"  -> Len(v.xs) > 0
      [] v.k = "map"   -> DOMAIN v.m # {}

format_string(in_string) ==
    LET st == StrOf(in_string)
        ascii == SelectSeq(st.s, LAMBDA c : ~IsNonAscii(c))
        clean == SelectSeq(ascii, IsPrintable)
    IN  IF (st.pad + Len(clean) = 1 /\ st.pad = 0 /\ clean = <<"?">>)
           \/ st.pad + Len(clean) = 0
        THEN None
        ELSE Str(st.pad, clean)

assign_type(v) ==
    IF v.k = "pn" THEN format_string(v)
    ELSE IF v.k = "mv" THEN
        IF \A i \in 1..Len(v.xs) : ParsesInt(v.xs[i])
        THEN ListOf([i \in 1..Len(v.xs) |-> IntValue(v.xs[i])])
        ELSE IF \A i \in 1..Len(v.xs) : ParsesFloat(v.xs[i])
        THEN ListOf([i \in 1..Len(v.xs) |-> FloatValue(v.xs[i])])
        ELSE LET kept == SelectSeq(v.xs, LAMBDA x : StrLen(x) > 0)
             IN  ListOf([i \in 1..Len(kept) |-> format_string(kept[i])])
    ELSE LET st == StrOf(v)
         IN  IF ParsesInt(st) THEN IntValue(st)
             ELSE IF ParsesFloat(st) THEN FloatValue(st)
             ELSE format_string(st)

(***************************************************************************)
(* The header flattener.                                                   *)
(***************************************************************************)
\* parse_header's exclude_tags, handed to get_seq_data as ignore_keys
exclude_tags == {"[Unknown]", "PixelData", "Pixel Data", "[User defined data]",
                 "[Protocol Data Block (compressed)]", "[Histogram tables]",
                 "[Unique image iden]"}

\* Max dicom field length
MaxFieldLen == 10240

\* the tags of the model, in the sorted order of Dataset.dir()
TagOrder == <<"PatientName", "PixelData", "SeriesNumber">>

\* Dataset.dir(): the tags of the data set, sorted
Dir(ds) == SelectSeq(TagOrder, LAMBDA t : t \in DOMAIN ds)

\* d[key] = v
Put(d, key, v) == [x \in DOMAIN d \cup {key} |-> IF x = key THEN v ELSE d[x]]

Skip == [k |-> "skip"]

RECURSIVE get_seq_data(_, _)

\* lines 84-99 for one key of one group: the value stored under the key,
\* Skip when nothing is stored, Raise when an exception leaves the function
SeqEntry(s_val, s_key, ignore_keys) ==
    IF s_val.k = "bad" THEN Raise
    ELSE IF s_val.k = "uid" \/ s_key \in ignore_keys THEN Skip
    ELSE IF s_val.k = "sq" THEN
        get_seq_data(s_val.items, ignore_keys)
    ELSE LET n_val == IF s_val.k = "str" THEN format_string(s_val)
                      ELSE assign_type(s_val)
         IN  IF Truthy(n_val) THEN n_val ELSE Skip

RECURSIVE SeqLoop(_, _, _)
\* the loop of line 82 over the groups of the sequence, seq_dict so far
SeqLoop(sequence, ignore_keys, seq_dict) ==
    IF sequence = <<>> THEN MapOf(seq_dict)
    ELSE LET seq == Head(sequence)
             entry == [s_key \in DOMAIN seq |-> SeqEntry(seq[s_key], s_key, ignore_keys)]
             stored == {s_key \in DOMAIN seq : entry[s_key] # Skip}
         IN  IF \E s_key \in DOMAIN seq : entry[s_key] = Raise THEN Raise
             ELSE SeqLoop(Tail(sequence), ignore_keys,
                          [x \in DOMAIN seq_dict \cup stored |->
                              IF x \in stored THEN entry[x] ELSE seq_dict[x]])

get_seq_data(sequence, ignore_keys) == SeqLoop(sequence, ignore_keys, EmptyMap)

\* value or value == 0 (line 115)
HasValue(value) ==
    CASE value.k = "str" -> StrLen(value) > 0
      [] value.k = "num" -> TRUE
      [] value.k = "pn"  -> Len(value.s) > 0
      [] value.k = "uid" -> Len(value.s) > 0
      [] value.k = "mv"  -> Len(value.xs) > 0

\* lines 117-120 with numeric coercion of every string
FormatValue_coerce_strings(value) == assign_type(value)

\* lines 117-120
FormatValue(value) ==
    IF value.k = "str" /\ StrLen(value) < MaxFieldLen
    THEN format_string(value)
    ELSE assign_type(value)

\* lines 111-122: the local formatted of one tag
Formatted(ds, tag) ==
    IF ds[tag].k = "bad" THEN None
    ELSE IF tag \notin exclude_tags /\ ds[tag].k # "sq"
    THEN IF HasValue(ds[tag]) THEN FormatValue(ds[tag]) ELSE None
    ELSE None

\* lines 123-124
StoreFormatted(hdr, tag, fmt) == IF Truthy(fmt) THEN Put(hdr, tag, fmt) ELSE hdr

\* lines 125-129
StoreSequence(hdr, tag, value) ==
    IF value.k = "sq"
    THEN LET seq_data == get_seq_data(value.items, exclude_tags)
         IN  IF seq_data # Raise /\ Truthy(seq_data) THEN Put(hdr, tag, seq_data) ELSE hdr
    ELSE hdr

\* lines 111-132: header after the body of the loop for one tag
HeaderAfter(hdr, ds, tag) ==
    IF ds[tag].k = "bad" THEN hdr
    ELSE StoreSequence(StoreFormatted(hdr, tag, Formatted(ds, tag)), tag, ds[tag])

(***************************************************************************)
(* Data sets of the model: every data set over TagOrder with at most       *)
(* MaxNodes tags in all, sequences nested at most MaxDepth deep and of at  *)
(* most MaxItems groups.                                                   *)
(***************************************************************************)
TopLeaves ==
    { Str(0, <<"4", "2">>), Str(0, <<"a", "b", "c">>), Str(0, <<"?">>), Str(0, <<>>),
      Str(0, <<"a", "U+00E9", "U+0007">>),
      Str(MaxFieldLen - 3, <<"4", "2">>), Str(MaxFieldLen - 2, <<"4", "2">>),
      Str(MaxFieldLen - 1, <<"x">>), Str(MaxFieldLen, <<>>),
      Num(<<"0">>), Num(<<"0", ".", "0">>), Num(<<"4", ".", "5">>), Num(<<"7">>),
      MV(<<Str(0, <<"1">>), Str(0, <<"2">>), Str(0, <<"x">>)>>),
      MV(<<Str(0, <<"1">>), Str(0, <<"?">>)>>),
      MV(<<>>),
      PN(<<"a", "^", "b">>), Uid(<<"1", ".", "2", ".", "4">>), Bad }

NestedLeaves ==
    { Str(0, <<"a", "b", "c">>), Str(0, <<"?">>), Num(<<"0">>), Num(<<"7">>),
      Uid(<<"1", ".", "2", ".", "4">>), Bad }

RECURSIVE GroupsOf(_, _, _, _)
RECURSIVE ItemsOf(_, _, _)

\* the values that take exactly n tags (their own included), nested at most d deep
ValuesOf(n, d, top) ==
    (IF n = 1 THEN (IF top THEN TopLeaves ELSE NestedLeaves) ELSE {})
    \cup (IF d > 0 THEN {SQ(q) : q \in ItemsOf(n - 1, d - 1, MaxItems)} ELSE {})

\* the groups over the tags ts with exactly n tags in all
GroupsOf(ts, n, d, top) ==
    IF ts = <<>> THEN (IF n = 0 THEN {EmptyMap} ELSE {})
    ELSE GroupsOf(Tail(ts), n, d, top)
         \cup UNION {{Put(g, Head(ts), v) :
                         v \in ValuesOf(c, d, top), g \in GroupsOf(Tail(ts), n - c, d, top)} :
                     c \in 1..n}

\* the sequences of at most cnt groups with exactly n tags in all
ItemsOf(n, d, cnt) ==
    (IF n = 0 THEN {<<>>} ELSE {})
    \cup (IF cnt > 0
          THEN UNION {{<<g>> \o r : g \in GroupsOf(TagOrder, j, d, FALSE),
                                    r \in ItemsOf(n - j, d, cnt - 1)} : j \in 0..n}
          ELSE {})

DataSets(nodes, depth) == UNION {GroupsOf(TagOrder, n, depth, TRUE) : n \in 0..nodes}

(***************************************************************************)
(* The run of the script, from the extension check to the output file.     *)
(***************************************************************************)
Closed == [open |-> FALSE, pos |-> 0]

ReadRec(pos, data) == [at |-> pos, n |-> Len(data)]

\* the process ends with the given status, before the output file is opened
Exit(how) ==
    /\ pc' = "exited"
    /\ status' = how

\* line 176, and lines 190-192 when the path does not end in .ptd
CheckExtension ==
    /\ pc = "main"
    /\ IF EndsWith(ptd_file, PtdSuffix)
       THEN /\ pc' = "open"
            /\ stages' = Append(stages, "extension")
            /\ UNCHANGED status
       ELSE /\ Exit("exit1")
            /\ UNCHANGED stages
    /\ UNCHANGED <<ptd_file, file, fp, reads, offset, dcm_buf, ptd, tags, formatted,
                   header, out, s, ret>>

\* line 29
OpenContainer ==
    /\ pc = "open"
    /\ fp' = [open |-> TRUE, pos |-> 0]
    /\ stages' = Append(stages, "open")
    /\ pc' = "seek_magic"
    /\ UNCHANGED <<ptd_file, file, reads, offset, dcm_buf, ptd, tags, formatted,
                   header, out, status, s, ret>>

\* line 31
SeekMagic ==
    /\ pc = "seek_magic"
    /\ LET pos == SeekEnd(Len(file), -MAGIC_STR_LEN)
       IN  IF pos < 0
           THEN Exit("OSError") /\ UNCHANGED fp
           ELSE /\ fp' = [fp EXCEPT !.pos = pos]
                /\ pc' = "check_magic"
                /\ UNCHANGED status
    /\ UNCHANGED <<ptd_file, file, reads, offset, dcm_buf, ptd, tags, formatted,
                   header, out, stages, s, ret>>

\* lines 33-35 without the sys.exit(1)
CheckMagic_without_exit ==
    /\ pc = "check_magic"
    /\ LET data == ReadBytes(file, fp.pos, MAGIC_STR_LEN)
       IN  /\ reads' = Append(reads, ReadRec(fp.pos, data))
           /\ fp' = [fp EXCEPT !.pos = fp.pos + Len(data)]
           /\ pc' = "read_offset"
    /\ UNCHANGED <<ptd_file, file, offset, dcm_buf, ptd, tags, formatted,
                   header, out, stages, status, s, ret>>

\* lines 33-35
CheckMagic ==
    /\ pc = "check_magic"
    /\ LET data == ReadBytes(file, fp.pos, MAGIC_STR_LEN)
       IN  /\ reads' = Append(reads, ReadRec(fp.pos, data))
           /\ fp' = [fp EXCEPT !.pos = fp.pos + Len(data)]
           /\ IF data # MAGIC_STR
              THEN Exit("exit1")
              ELSE pc' = "read_offset" /\ UNCHANGED status
    /\ UNCHANGED <<ptd_file, file, offset, dcm_buf, ptd, tags, formatted,
                   header, out, stages, s, ret>>

\* lines 37-38
ReadOffset ==
    /\ pc = "read_offset"
    /\ LET pos == SeekEnd(Len(file), -MAGIC_STR_LEN - CalcSizeI)
           data == ReadBytes(file, pos, CalcSizeI)
       IN  IF pos < 0
           THEN Exit("OSError") /\ UNCHANGED <<fp, reads, offset>>
           ELSE /\ reads' = Append(reads, ReadRec(pos, data))
                /\ fp' = [fp EXCEPT !.pos = pos + Len(data)]
                /\ offset' = IntOf(UnpackI(data))
                /\ pc' = "read_header"
                /\ UNCHANGED status
    /\ UNCHANGED <<ptd_file, file, dcm_buf, ptd, tags, formatted,
                   header, out, stages, s, ret>>

\* lines 39-41
ReadHeader ==
    /\ pc = "read_header"
    /\ LET pos == SeekEnd(Len(file), HeaderSeekDelta(offset.i))
           data == ReadBytes(file, pos, offset.i)
       IN  IF pos < 0
           THEN Exit("OSError") /\ UNCHANGED <<fp, reads, dcm_buf, stages>>
           ELSE IF offset.i < -1
           THEN /\ Exit("ValueError")
                /\ fp' = [fp EXCEPT !.pos = pos]
                /\ UNCHANGED <<reads, dcm_buf, stages>>
           ELSE /\ reads' = Append(reads, ReadRec(pos, data))
                /\ dcm_buf' = Buf(data)
                /\ fp' = Closed
                /\ stages' = Append(stages, "locate")
                /\ pc' = "decode"
                /\ UNCHANGED status
    /\ UNCHANGED <<ptd_file, file, offset, ptd, tags, formatted, header, out, s, ret>>

\* line 42: pydicom.read_file raises or hands out a data set
Decode ==
    /\ pc = "decode"
    /\ \/ Exit("InvalidDicomError") /\ UNCHANGED <<ptd, stages>>
       \/ \E ds \in DataSets(1, 1) :
            /\ ptd' = ds
            /\ stages' = Append(stages, "decode")
            /\ pc' = "parse_header"
            /\ UNCHANGED status
    /\ UNCHANGED <<ptd_file, file, fp, reads, offset, dcm_buf, tags, formatted,
                   header, out, s, ret>>

\* lines 106-109
ParseHeaderStart ==
    /\ pc = "parse_header"
    /\ header' = EmptyMap
    /\ tags' = Dir(ptd)
    /\ pc' = "tag"
    /\ UNCHANGED <<ptd_file, file, fp, reads, offset, dcm_buf, ptd, formatted,
                   out, stages, status, s, ret>>

\* lines 110-132, one turn of the loop
ParseTag ==
    /\ pc = "tag"
    /\ tags # <<>>
    /\ formatted' = Formatted(ptd, Head(tags))
    /\ header' = HeaderAfter(header, ptd, Head(tags))
    /\ tags' = Tail(tags)
    /\ UNCHANGED <<pc, ptd_file, file, fp, reads, offset, dcm_buf, ptd,
                   out, stages, status, s, ret>>

\* line 133 and lines 184-187
ParseReturn ==
    /\ pc = "tag"
    /\ tags = <<>>
    /\ stages' = Append(stages, "flatten")
    /\ pc' = "write"
    /\ UNCHANGED <<ptd_file, file, fp, reads, offset, dcm_buf, ptd, tags, formatted,
                   header, out, status, s, ret>>

\* lines 188-189
WriteOutput ==
    /\ pc = "write"
    /\ out' = [k |-> "doc", dicom |-> header]
    /\ stages' = Append(stages, "write")
    /\ pc' = "exited"
    /\ status' = "ok"
    /\ UNCHANGED <<ptd_file, file, fp, reads, offset, dcm_buf, ptd, tags, formatted,
                   header, s, ret>>

\* a direct call of assign_type on a list
CallAssignType ==
    /\ pc = "assign_type"
    /\ ret' = assign_type(s)
    /\ pc' = "returned"
    /\ UNCHANGED <<ptd_file, file, fp, reads, offset, dcm_buf, ptd, tags, formatted,
                   header, out, stages, status, s>>

(***************************************************************************)
(* Spec: a run of the script on a container file.                          *)
(***************************************************************************)
Init ==
    /\ pc = "main"
    /\ ptd_file \in Paths
    /\ file \in Files
    /\ fp = Closed
    /\ reads = <<>>
    /\ offset = NoOffset
    /\ dcm_buf = NoBuf
    /\ ptd = NoDataSet
    /\ tags = <<>>
    /\ formatted = None
    /\ header = EmptyMap
    /\ out = NoFile
    /\ stages = <<>>
    /\ status = "running"
    /\ s = NoValue
    /\ ret = NoValue

Next ==
    \/ CheckExtension
    \/ OpenContainer
    \/ SeekMagic
    \/ CheckMagic
    \/ ReadOffset
    \/ ReadHeader
    \/ Decode
    \/ ParseHeaderStart
    \/ ParseTag
    \/ ParseReturn
    \/ WriteOutput

Spec == Init /\ [][Next]_vars

(***************************************************************************)
(* SpecParse: the run from the call of parse_header on, on every data set  *)
(* of the model; the container is the one with an empty header block.      *)
(***************************************************************************)
EmptyContainer == Pack(0) \o MAGIC_STR

InitParse ==
    /\ pc = "parse_header"
    /\ ptd_file = <<"a", ".", "p", "t", "d">>
    /\ file = EmptyContainer
    /\ fp = Closed
    /\ reads = <<[at |-> CalcSizeI, n |-> MAGIC_STR_LEN], [at |-> 0, n |-> CalcSizeI],
                 [at |-> 0, n |-> 0]>>
    /\ offset = IntOf(0)
    /\ dcm_buf = Buf(<<>>)
    /\ ptd \in DataSets(MaxNodes, MaxDepth)
    /\ tags = <<>>
    /\ formatted = None
    /\ header = EmptyMap
    /\ out = NoFile
    /\ stages = <<"extension", "open", "locate", "decode">>
    /\ status = "running"
    /\ s = NoValue
    /\ ret = NoValue

NextParse ==
    \/ ParseHeaderStart
    \/ ParseTag
    \/ ParseReturn
    \/ WriteOutput

SpecParse == InitParse /\ [][NextParse]_vars

(***************************************************************************)
(* SpecNorm: direct calls of assign_type on lists of strings.              *)
(***************************************************************************)
ListChars == {"0", "7", ".", "x", "?", "U+00E9"}

ListInputs(len) ==
    {MV(q) : q \in SeqsUpTo({Str(0, e) : e \in SeqsUpTo(ListChars, MaxStrLen)}, len)}

InitNorm ==
    /\ pc = "assign_type"
    /\ s \in ListInputs(MaxListLen)
    /\ ret = NoValue
    /\ ptd_file = <<>>
    /\ file = <<>>
    /\ fp = Closed
    /\ reads = <<>>
    /\ offset = NoOffset
    /\ dcm_buf = NoBuf
    /\ ptd = NoDataSet
    /\ tags = <<>>
    /\ formatted = None
    /\ header = EmptyMap
    /\ out = NoFile
    /\ stages = <<>>
    /\ status = "running"

NextNorm == CallAssignType

SpecNorm == InitNorm /\ [][NextNorm]_vars

(***************************************************************************)
(* Vocabulary of the properties.                                           *)
(***************************************************************************)
Size == Len(file)

TrailerLen == MAGIC_STR_LEN + CalcSizeI

\* the last MAGIC_STR_LEN bytes of the file are the magic string
EndsInMagic ==
    Size >= MAGIC_STR_LEN /\ SubSeq(file, Size - MAGIC_STR_LEN + 1, Size) = MAGIC_STR

\* the file is a header block, its length in the length field, the magic string
HeaderBlock == SubSeq(file, 1, Size - TrailerLen)

WellFormed ==
    /\ Size >= TrailerLen
    /\ EndsInMagic
    /\ SubSeq(file, Size - TrailerLen + 1, Size - MAGIC_STR_LEN) = Pack(Size - TrailerLen)

\* ptd_reader was entered and is not inside its lines 31-41 any more
LocatorLeft ==
    /\ "open" \in Range(stages)
    /\ pc \notin {"seek_magic", "check_magic", "read_offset", "read_header"}

\* parse_header has returned
ParseDone == "flatten" \in Range(stages)

Crashes == {"OSError", "ValueError", "InvalidDicomError"}

StageOrder == <<"extension", "open", "locate", "decode", "flatten", "write">>

IsPrefix(p, q) == Len(p) <= Len(q) /\ SubSeq(q, 1, Len(p)) = p

\* the bytes of the file a read returned, as positions
BytesOf(r) == (r.at + 1) .. (r.at + r.n)

(***************************************************************************)
(* C1.  Round-trip location: when the file is a header block H, then the   *)
(* 4-byte length field holding len(H), then the magic string, ptd_reader   *)
(* leaves its reading part with exactly H in dcm_buf, read in one read of  *)
(* len(H) bytes that starts at fileEnd - 24 - len(H).                      *)
(***************************************************************************)
C1_RoundTrip ==
    (WellFormed /\ LocatorLeft) =>
        /\ dcm_buf = Buf(HeaderBlock)
        /\ Len(reads) = 3
        /\ reads[3] = [at |-> Size - TrailerLen - Len(HeaderBlock), n |-> Len(HeaderBlock)]

C1_Witness ==
    /\ WellFormed
    /\ Len(HeaderBlock) = MaxHeaderLen
    /\ pc = "decode"
    /\ dcm_buf = Buf(HeaderBlock)

(***************************************************************************)
(* C2.  Magic rejection: for a file that does not end in the magic string, *)
(* files shorter than 20 bytes and the empty file included, ptd_reader     *)
(* ends in the controlled exit with status 1, never in an uncaught         *)
(* exception, and reads neither the length field nor header bytes.         *)
(***************************************************************************)
C2_MagicRejection ==
    ~EndsInMagic =>
        /\ status \notin Crashes
        /\ (LocatorLeft => status = "exit1")
        /\ offset = NoOffset
        /\ dcm_buf = NoBuf
        /\ \A i \in 1..Len(reads) : BytesOf(reads[i]) \subseteq (Size - MAGIC_STR_LEN + 1) .. Size

(***************************************************************************)
(* C3.  Truncation safety: for a file ending in the magic string whose     *)
(* length field does not fit the file (offset > fileSize - 24, or          *)
(* offset < 0), ptd_reader ends in a fatal error, reads no byte outside    *)
(* the trailer and the range [fileEnd - 24 - offset, fileEnd - 24), and    *)
(* hands no block to the decoder.                                          *)
(***************************************************************************)
C3_TruncationSafety ==
    (EndsInMagic /\ offset # NoOffset /\ (offset.i > Size - TrailerLen \/ offset.i < 0)) =>
        /\ dcm_buf = NoBuf
        /\ (LocatorLeft => pc = "exited" /\ status # "ok")
        /\ \A i \in 3..Len(reads) :
              BytesOf(reads[i]) \subseteq (Size - TrailerLen - offset.i + 1) .. (Size - TrailerLen)

(***************************************************************************)
(* Vocabulary of the properties of the flattener.                          *)
(***************************************************************************)
RECURSIVE KeysDeep(_)
\* the keys of a mapping and of every mapping nested in it
KeysDeep(m) ==
    DOMAIN m \cup UNION {KeysDeep(m[key].m) : key \in {x \in DOMAIN m : m[x].k = "map"}}

\* a normalized value that is neither None nor empty
NonEmpty(v) ==
    CASE v.k = "none"  -> FALSE
      [] v.k = "str"   -> StrLen(v) > 0
      [] v.k = "list"  -> Len(v.xs) > 0
      [] v.k = "map"   -> DOMAIN v.m # {}
      [] OTHER         -> TRUE

RECURSIVE Pruned(_)
\* no key of the mapping, at any depth, maps to None, to an empty value or
\* to an empty mapping
Pruned(m) ==
    \A key \in DOMAIN m :
        /\ NonEmpty(m[key])
        /\ (m[key].k = "map" => Pruned(m[key].m))

RECURSIVE CountBad(_)
\* the number of elements of the data set, at any depth, whose access raises
CountBad(ds) ==
    LET bad == {t \in DOMAIN ds : ds[t].k = "bad"}
        sqs == {t \in DOMAIN ds : ds[t].k = "sq"}
        RECURSIVE Sum(_), SumItems(_)
        SumItems(q) == IF q = <<>> THEN 0 ELSE CountBad(Head(q)) + SumItems(Tail(q))
        Sum(S) == IF S = {} THEN 0
                  ELSE LET t == CHOOSE x \in S : TRUE
                       IN  SumItems(ds[t].items) + Sum(S \ {t})
    IN  Cardinality(bad) + Sum(sqs)

RECURSIVE WithoutBad(_)
\* the data set with those elements absent
WithoutBad(ds) ==
    [t \in {x \in DOMAIN ds : ds[x].k # "bad"} |->
        IF ds[t].k = "sq"
        THEN SQ([i \in 1..Len(ds[t].items) |-> WithoutBad(ds[t].items[i])])
        ELSE ds[t]]

RECURSIVE ParseLoop(_, _, _)
\* the header a run of parse_header builds for a data set
ParseLoop(hdr, ds, ts) ==
    IF ts = <<>> THEN hdr ELSE ParseLoop(HeaderAfter(hdr, ds, Head(ts)), ds, Tail(ts))

\* the entry of a tag in a mapping, Skip when the tag is no key of it
EntryOf(m, tag) == IF tag \in DOMAIN m THEN m[tag] ELSE Skip

(***************************************************************************)
(* C4.  Denylist enforcement: no tag of exclude_tags is a key of the       *)
(* mapping parse_header builds, at the top level or in a nested mapping,   *)
(* whatever the kind of its value.                                         *)
(***************************************************************************)
C4_Denylist == KeysDeep(header) \cap exclude_tags = {}

(***************************************************************************)
(* C5.  Pruning: in the mapping parse_header returns no key, at any depth, *)
(* maps to None, to an empty value or to an empty nested mapping.          *)
(***************************************************************************)
C5_Pruning == ParseDone => Pruned(header)

(***************************************************************************)
(* C6.  List homogeneity: for a list input assign_type returns a list of   *)
(* integers when every element parses as an integer, else a list of floats *)
(* when every element parses as a float, else the list of the sanitized    *)
(* strings of the elements, without those that sanitize to empty or to the *)
(* lone "?": never a None element.                                         *)
(***************************************************************************)
C6_ListHomogeneity ==
    pc = "returned" =>
        /\ ret.k = "list"
        /\ IF \A i \in 1..Len(s.xs) : ParsesInt(s.xs[i])
           THEN \A i \in 1..Len(ret.xs) : ret.xs[i].k = "int"
           ELSE IF \A i \in 1..Len(s.xs) : ParsesFloat(s.xs[i])
           THEN \A i \in 1..Len(ret.xs) : ret.xs[i].k = "float"
           ELSE LET clean == [i \in 1..Len(s.xs) |-> format_string(s.xs[i])]
                IN  ret.xs = SelectSeq(clean, LAMBDA x : x # None)

(***************************************************************************)
(* C7 as stated.  Scalar coercion: a non-excluded top-level tag whose      *)
(* value is a plain string is stored with the result of the integer, then  *)
(* float, then sanitized string precedence, except that a string longer    *)
(* than 10240 characters is only sanitized.                                *)
(***************************************************************************)
C7_CoercionAsStated ==
    ParseDone =>
        \A tag \in DOMAIN ptd :
            (tag \notin exclude_tags /\ ptd[tag].k = "str") =>
                LET want == IF StrLen(ptd[tag]) > MaxFieldLen
                            THEN format_string(ptd[tag])
                            ELSE assign_type(ptd[tag])
                IN  EntryOf(header, tag) = IF want = None THEN Skip ELSE want

(***************************************************************************)
(* C7 as amended.  A non-excluded top-level tag whose value is a plain     *)
(* string shorter than 10240 characters is only sanitized: it is stored as *)
(* the sanitized string, and not stored when that is empty or the lone     *)
(* "?".  A string of 10240 characters or more goes through the integer,    *)
(* then float, then sanitized string precedence, and the result is stored  *)
(* when it is truthy.                                                      *)
(***************************************************************************)
C7_Coercion ==
    ParseDone =>
        \A tag \in DOMAIN ptd :
            (tag \notin exclude_tags /\ ptd[tag].k = "str") =>
                IF StrLen(ptd[tag]) < MaxFieldLen
                THEN LET clean == SelectSeq(ptd[tag].s, LAMBDA c : ~IsNonAscii(c) /\ IsPrintable(c))
                     IN  EntryOf(header, tag) =
                            IF ptd[tag].pad + Len(clean) = 0
                               \/ (ptd[tag].pad = 0 /\ clean = <<"?">>)
                            THEN Skip
                            ELSE Str(ptd[tag].pad, clean)
                ELSE EntryOf(header, tag) =
                        IF ParsesInt(ptd[tag])
                        THEN (IF IntValue(ptd[tag]).i # 0 THEN IntValue(ptd[tag]) ELSE Skip)
                        ELSE IF ParsesFloat(ptd[tag])
                        THEN (IF FloatValue(ptd[tag]).num # 0 THEN FloatValue(ptd[tag]) ELSE Skip)
                        ELSE (IF format_string(ptd[tag]) = None THEN Skip
                              ELSE format_string(ptd[tag]))

C7_Witness ==
    /\ ParseDone
    /\ \E tag \in DOMAIN ptd :
          /\ tag \notin exclude_tags
          /\ ptd[tag] = Str(0, <<"4", "2">>)
          /\ EntryOf(header, tag) = Str(0, <<"4", "2">>)

(***************************************************************************)
(* C8.  Single bad tag tolerance: when the access of one element raises,   *)
(* at the top level or inside a group of a sequence, parse_header returns  *)
(* the mapping it returns for the data set without that element, and the   *)
(* run writes the output document with it.                                 *)
(***************************************************************************)
C8_BadTagTolerance ==
    (ptd # NoDataSet /\ CountBad(ptd) = 1) =>
        /\ (ParseDone => header = ParseLoop(EmptyMap, WithoutBad(ptd), Dir(WithoutBad(ptd))))
        /\ (pc = "exited" /\ "decode" \in Range(stages) => status = "ok" /\ out # NoFile)

(***************************************************************************)
(* C9.  All-or-nothing output and stage ordering: the stages complete in   *)
(* the order extension check, open, trailer location, decoding,            *)
(* flattening, write; the output file exists only when all of them have;   *)
(* a run that ends otherwise, a bad extension, a magic mismatch or a       *)
(* header start before the start of the file among them, ends without the  *)
(* output file; a bad extension ends the run before the container is       *)
(* opened.                                                                 *)
(***************************************************************************)
C9_AllOrNothing ==
    /\ IsPrefix(stages, StageOrder)
    /\ (out # NoFile <=> stages = StageOrder)
    /\ (out # NoFile => out = [k |-> "doc", dicom |-> header] /\ status = "ok")
    /\ (pc = "exited" /\ status # "ok" => out = NoFile)
    /\ (~EndsWith(ptd_file, PtdSuffix) =>
            /\ stages = <<>> /\ reads = <<>> /\ ~fp.open
            /\ pc \in {"main", "exited"}
            /\ (pc = "exited" => status = "exit1"))
    /\ (~EndsInMagic => out = NoFile /\ "locate" \notin Range(stages))
    /\ (offset # NoOffset /\ offset.i > Size - TrailerLen =>
            out = NoFile /\ "locate" \notin Range(stages))

C9_Witness ==
    /\ pc = "exited"
    /\ status = "ok"
    /\ stages = StageOrder
    /\ out = [k |-> "doc", dicom |-> header]
    /\ DOMAIN header # {}

(***************************************************************************)
(* C10.  Zero values are kept: a non-excluded top-level tag with a         *)
(* non-sequence value whose normalized value is not dropped, the integer 0 *)
(* and the float 0.0 included, is stored with that normalized value.       *)
(***************************************************************************)
C10_ZeroKept ==
    ParseDone =>
        \A tag \in DOMAIN ptd :
            (tag \notin exclude_tags /\ ptd[tag].k \notin {"sq", "bad"}) =>
                LET norm == Formatted(ptd, tag)
                IN  NonEmpty(norm) => EntryOf(header, tag) = norm

====
